---- MODULE Spec2Model ----
(***************************************************************************)
(* State-machine model of the react-useauth application: the AuthProvider  *)
(* (contexts/AuthContext.js, listed in README.md), the ProtectedRoute      *)
(* gate, the route table of App.js and the handlers of LoginPage and       *)
(* DashboardPage.                                                          *)
(*                                                                         *)
(* React semantics used by the model:                                      *)
(*  - state updates made inside one event handler or one effect are        *)
(*    batched and committed in a single re-render, so every action ends    *)
(*    with the committed screen (view) of its new state;                   *)
(*  - effects run after the commit, a child's effect before its parent's,  *)
(*    and React flushes the pending effects of a commit before it handles  *)
(*    any later event;                                                     *)
(*  - an error thrown inside an effect with no error boundary unmounts     *)
(*    the whole tree.                                                      *)
(***************************************************************************)
EXTENDS Integers, Sequences, FiniteSets, TLC

VARIABLES
    storage,            \* localStorage entry 'user': [present, text]
    user,               \* AuthProvider state `user` (Null or a user object)
    loading,            \* AuthProvider state `loading`
    path,               \* the router's current location
    username,           \* LoginPage state `username`
    view,               \* the committed screen
    phase,              \* "boot" | "hydrating" | "ready" | "crashed"
    gateEffectPending,  \* ProtectedRoute's effect is scheduled to run
    redirected,         \* history: the gate called navigate('/login') in this process
    ops,                \* history: the auth operations called in this process (last MaxHist)
    lastOp,             \* history: the last auth operation ever called (survives restarts)
    restarted           \* history: this process was started by a reload

vars == <<storage, user, loading, path, username, view, phase,
          gateEffectPending, redirected, ops, lastOp, restarted>>

----------------------------------------------------------------------------
(* Bounds and input alphabets *)

MaxHist == 2

\* JavaScript null
Null == [null |-> TRUE]

\* `id: 1` of LoginPage's fakeUserData
FakeId == 1

\* characters are one-character strings; a text is a sequence of characters
Names == { <<"a">>, <<"\"">>, <<"b", "\\">> }

NoName == <<>>

Users == [id : {FakeId}, name : Names]

Paths == {"/", "/login", "/dashboard", "/signup", "/this-does-not-exist"}

\* JavaScript truthiness of `user`: null is falsy, every object is truthy
Truthy(v) == v # Null

----------------------------------------------------------------------------
(* JSON.stringify / JSON.parse on the values the program stores *)

Digits == <<"0", "1", "2", "3", "4", "5", "6", "7", "8", "9">>

ObjOpen == <<"{", "\"", "i", "d", "\"", ":">>

NameKey == <<",", "\"", "n", "a", "m", "e", "\"", ":">>

NullText == <<"n", "u", "l", "l">>

RECURSIVE Escape(_)
Escape(s) ==
    IF s = <<>> THEN <<>>
    ELSE (IF Head(s) \in {"\"", "\\"} THEN <<"\\", Head(s)>> ELSE <<Head(s)>>)
         \o Escape(Tail(s))

RECURSIVE WellEscaped(_)
WellEscaped(s) ==
    IF s = <<>> THEN TRUE
    ELSE IF Head(s) = "\\"
         THEN Len(s) >= 2 /\ s[2] \in {"\"", "\\"} /\ WellEscaped(Tail(Tail(s)))
    ELSE IF Head(s) = "\"" THEN FALSE
    ELSE WellEscaped(Tail(s))

RECURSIVE Unescape(_)
Unescape(s) ==
    IF s = <<>> THEN <<>>
    ELSE IF Head(s) = "\\" THEN <<s[2]>> \o Unescape(Tail(Tail(s)))
    ELSE <<Head(s)>> \o Unescape(Tail(s))

JSONstringifyDropsEscapes(u) ==
    ObjOpen \o <<Digits[u.id + 1]>> \o NameKey \o <<"\"">> \o u.name \o <<"\"", "}">>

\* JSON.stringify of a user object {id, name}
JSONstringify(u) ==
    ObjOpen \o <<Digits[u.id + 1]>> \o NameKey \o <<"\"">> \o Escape(u.name) \o <<"\"", "}">>

IsUserText(t) ==
    LET n == Len(ObjOpen)
        m == Len(NameKey)
    IN  /\ Len(t) >= n + 1 + m + 3
        /\ SubSeq(t, 1, n) = ObjOpen
        /\ \E d \in 1..Len(Digits) : Digits[d] = t[n + 1]
        /\ SubSeq(t, n + 2, n + 1 + m) = NameKey
        /\ t[n + m + 2] = "\""
        /\ t[Len(t) - 1] = "\""
        /\ t[Len(t)] = "}"
        /\ WellEscaped(SubSeq(t, n + m + 3, Len(t) - 2))

UserOfText(t) ==
    LET n == Len(ObjOpen)
        m == Len(NameKey)
    IN  [id   |-> (CHOOSE d \in 1..Len(Digits) : Digits[d] = t[n + 1]) - 1,
         name |-> Unescape(SubSeq(t, n + m + 3, Len(t) - 2))]

\* JSON.parse: [ok |-> TRUE, value] or a thrown SyntaxError [ok |-> FALSE]
JSONparse(t) ==
    IF t = NullText THEN [ok |-> TRUE, value |-> Null]
    ELSE IF IsUserText(t) THEN [ok |-> TRUE, value |-> UserOfText(t)]
    ELSE [ok |-> FALSE, value |-> Null]

----------------------------------------------------------------------------
(* localStorage *)

NoItem == [present |-> FALSE, text |-> <<>>]

Item(t) == [present |-> TRUE, text |-> t]

\* truthiness of localStorage.getItem('user'): null (no entry) and '' are falsy
TruthyItem(s) == s.present /\ s.text # <<>>

\* texts that JSON.parse rejects
CorruptTexts ==
    { <<"x">>,
      ObjOpen,
      <<"{", "\"", "i", "d", "\"", ":", "1", ",", "\"", "n", "a", "m", "e", "\"", ":", "\"", "a">> }

\* what the storage can hold when a process starts
StartStorage ==
    {NoItem, Item(<<>>), Item(NullText)}
    \cup {Item(JSONstringify(u)) : u \in Users}
    \cup {Item(t) : t \in CorruptTexts}

----------------------------------------------------------------------------
(* App.js: the route table, first match wins *)

RoutesLoginProtected ==
    << [path |-> "/",          element |-> "HomePage"],
       [path |-> "/login",     element |-> "ProtectedRoute"],
       [path |-> "/dashboard", element |-> "ProtectedRoute"],
       [path |-> "*",          element |-> "NotFoundPage"] >>

RoutesWithoutCatchAll ==
    << [path |-> "/",          element |-> "HomePage"],
       [path |-> "/login",     element |-> "LoginPage"],
       [path |-> "/dashboard", element |-> "ProtectedRoute"] >>

Routes ==
    << [path |-> "/",          element |-> "HomePage"],
       [path |-> "/login",     element |-> "LoginPage"],
       [path |-> "/dashboard", element |-> "ProtectedRoute"],
       [path |-> "*",          element |-> "NotFoundPage"] >>

Matches(pattern, p) == pattern = "*" \/ pattern = p

\* the element of the first route whose pattern matches p ("None": no match)
Element(p) ==
    LET hits == {i \in 1..Len(Routes) : Matches(Routes[i].path, p)}
    IN  IF hits = {} THEN "None"
        ELSE Routes[CHOOSE i \in hits : \A j \in hits : i <= j].element

----------------------------------------------------------------------------
(* Page components: what each renders *)

Screen(page, text, name) == [page |-> page, text |-> text, name |-> name]

Blank == Screen("Blank", "", NoName)

DashboardPage(u) ==
    IF Truthy(u) THEN Screen("Dashboard", "Welcome", u.name)
    ELSE Screen("Dashboard", "Loading user data...", NoName)

HomePage(u) ==
    IF Truthy(u) THEN Screen("Home", "Welcome back", u.name)
    ELSE Screen("Home", "You are not logged in.", NoName)

ProtectedRouteRendersChildren(u, l) ==
    IF l THEN Screen("Placeholder", "Loading...", NoName) ELSE DashboardPage(u)

\* ProtectedRoute's render: the placeholder, its children, or null
ProtectedRoute(u, l) ==
    IF l THEN Screen("Placeholder", "Loading...", NoName)
    ELSE IF Truthy(u) THEN DashboardPage(u)
    ELSE Screen("Null", "", NoName)

NoNav == "<none>"

ProtectedRouteEffectIgnoresLoading(u, l) ==
    IF ~Truthy(u) THEN "/login" ELSE NoNav

ProtectedRouteEffectNeverNavigates(u, l) == NoNav

\* ProtectedRoute's effect: the path it navigates to, or NoNav
ProtectedRouteEffect(u, l) ==
    IF l THEN NoNav
    ELSE IF ~Truthy(u) THEN "/login"
    ELSE NoNav

\* the screen <Routes> commits for location p and session (u, l)
Render(p, u, l) ==
    LET e == Element(p)
    IN  IF e = "HomePage" THEN HomePage(u)
        ELSE IF e = "LoginPage" THEN Screen("Login", "Login", NoName)
        ELSE IF e = "ProtectedRoute" THEN ProtectedRoute(u, l)
        ELSE IF e = "NotFoundPage" THEN Screen("NotFound", "404 - Page Not Found", NoName)
        ELSE Blank

\* ProtectedRoute is mounted: the tree is mounted and the location is a gated route
GateMounted(ph, p) == ph \in {"hydrating", "ready"} /\ Element(p) = "ProtectedRoute"

\* the effect runs after a commit that mounts the gate or changes its deps [user, loading]
EffectDue(wasMounted, oldU, oldL, isMounted, newU, newL) ==
    isMounted /\ (~wasMounted \/ oldU # newU \/ oldL # newL)

\* LoginPage's `username` lives while the page stays mounted
UsernameAfter(newView) ==
    IF view.page = "Login" /\ newView.page = "Login" THEN username ELSE NoName

Remember(op) ==
    LET all == Append(ops, op)
    IN  IF Len(all) > MaxHist THEN SubSeq(all, Len(all) - MaxHist + 1, Len(all)) ELSE all

NoOp == [op |-> "none", user |-> Null]

----------------------------------------------------------------------------
(* The state after construction: a process started on some URL *)

Init ==
    /\ storage \in StartStorage
    /\ user = Null
    /\ loading = TRUE
    /\ path \in Paths
    /\ username = NoName
    /\ view = Blank
    /\ phase = "boot"
    /\ gateEffectPending = FALSE
    /\ redirected = FALSE
    /\ ops = <<>>
    /\ lastOp = NoOp
    /\ restarted = FALSE

\* the first render of <App/>: user = null, loading = true
Mount ==
    /\ phase = "boot"
    /\ phase' = "hydrating"
    /\ view' = Render(path, user, loading)
    /\ gateEffectPending' = GateMounted("hydrating", path)
    /\ UNCHANGED <<storage, user, loading, path, username, redirected, ops, lastOp, restarted>>

\* ProtectedRoute's useEffect body, then the re-render its navigate() causes
RunGateEffect ==
    /\ gateEffectPending
    /\ LET target == ProtectedRouteEffect(user, loading)
       IN  IF target = NoNav
           THEN /\ gateEffectPending' = FALSE
                /\ UNCHANGED <<path, view, username, redirected>>
           ELSE /\ path' = target
                /\ redirected' = TRUE
                /\ view' = Render(target, user, loading)
                /\ username' = UsernameAfter(view')
                /\ gateEffectPending' =
                       EffectDue(TRUE, user, loading, GateMounted(phase, target), user, loading)
    /\ UNCHANGED <<storage, user, loading, phase, ops, lastOp, restarted>>

HydrateSkipsUser(storedUser) == [ok |-> TRUE, user |-> user, loading |-> FALSE]

HydrateKeepsLoading(storedUser) ==
    IF TruthyItem(storedUser)
    THEN LET r == JSONparse(storedUser.text)
         IN  [ok |-> r.ok, user |-> r.value, loading |-> loading]
    ELSE [ok |-> TRUE, user |-> user, loading |-> loading]

\* AuthProvider's mount effect: the state its batched setUser / setLoading(false)
\* leave, or ok = FALSE when JSON.parse throws before either takes effect
Hydrate(storedUser) ==
    IF TruthyItem(storedUser)
    THEN LET r == JSONparse(storedUser.text)
         IN  [ok |-> r.ok, user |-> r.value, loading |-> FALSE]
    ELSE [ok |-> TRUE, user |-> user, loading |-> FALSE]

\* AuthProvider's useEffect(..., []): runs once, after its children's effects
RunHydrate ==
    /\ phase = "hydrating"
    /\ ~gateEffectPending
    /\ LET r == Hydrate(storage)
       IN  IF r.ok
           THEN /\ user' = r.user
                /\ loading' = r.loading
                /\ phase' = "ready"
                /\ view' = Render(path, r.user, r.loading)
                /\ gateEffectPending' =
                       EffectDue(GateMounted(phase, path), user, loading,
                                 GateMounted("ready", path), r.user, r.loading)
           ELSE \* JSON.parse threw: setLoading(false) is never reached, the tree unmounts
                /\ phase' = "crashed"
                /\ view' = Blank
                /\ gateEffectPending' = FALSE
                /\ UNCHANGED <<user, loading>>
    /\ username' = UsernameAfter(view')
    /\ UNCHANGED <<storage, path, redirected, ops, lastOp, restarted>>

\* the application is idle: hydrated, no effect left to flush
Idle == phase = "ready" /\ ~gateEffectPending

----------------------------------------------------------------------------
(* AuthContext and useAuth *)

\* createContext(null): what useContext returns with no provider above the caller
DefaultContext == Null

\* the provider's `value` object, as far as the session goes
ContextValue == [user |-> user, loading |-> loading]

\* useContext(AuthContext) in a component inside / outside an <AuthProvider>
useContext(insideProvider, value) == IF insideProvider THEN value ELSE DefaultContext

\* useAuth: returns useContext(AuthContext) as it is; it has no throw statement
useAuth(insideProvider, value) ==
    [threw |-> FALSE, value |-> useContext(insideProvider, value)]

----------------------------------------------------------------------------
(* AuthProvider's login and logout: the state and the storage they leave *)

loginForgetsUser(userData) == [user |-> user, storage |-> Item(JSONstringify(userData))]

loginKeepsStorage(userData) == [user |-> userData, storage |-> storage]

\* login: setUser(userData); localStorage.setItem('user', JSON.stringify(userData))
login(userData) == [user |-> userData, storage |-> Item(JSONstringify(userData))]

logoutKeepsStorage == [user |-> Null, storage |-> storage]

\* logout: setUser(null); localStorage.removeItem('user')
logout == [user |-> Null, storage |-> NoItem]

----------------------------------------------------------------------------
(* User events, handled when the application is idle *)

\* LoginPage: onChange of the username input
SetUsername(n) ==
    /\ Idle
    /\ view.page = "Login"
    /\ n # username
    /\ username' = n
    /\ UNCHANGED <<storage, user, loading, path, view, phase, gateEffectPending,
                   redirected, ops, lastOp, restarted>>

\* LoginPage.handleLogin: the input is `required`, so the form submits a non-empty name
HandleLogin ==
    /\ Idle
    /\ view.page = "Login"
    /\ username # NoName
    /\ LET fakeUserData == [id |-> FakeId, name |-> username]
           r == login(fakeUserData)
       IN  /\ user' = r.user
           /\ storage' = r.storage
           /\ path' = "/dashboard"
           /\ view' = Render("/dashboard", r.user, loading)
           /\ gateEffectPending' =
                  EffectDue(GateMounted(phase, path), user, loading,
                            GateMounted(phase, "/dashboard"), r.user, loading)
           /\ ops' = Remember([op |-> "login", user |-> fakeUserData])
           /\ lastOp' = [op |-> "login", user |-> fakeUserData]
    /\ username' = UsernameAfter(view')
    /\ UNCHANGED <<loading, phase, redirected, restarted>>

\* DashboardPage.handleLogout
HandleLogout ==
    /\ Idle
    /\ view.page = "Dashboard"
    /\ LET r == logout
       IN  /\ user' = r.user
           /\ storage' = r.storage
           /\ path' = "/login"
           /\ view' = Render("/login", r.user, loading)
           /\ gateEffectPending' =
                  EffectDue(GateMounted(phase, path), user, loading,
                            GateMounted(phase, "/login"), r.user, loading)
           /\ ops' = Remember([op |-> "logout", user |-> Null])
           /\ lastOp' = [op |-> "logout", user |-> Null]
    /\ username' = UsernameAfter(view')
    /\ UNCHANGED <<loading, phase, redirected, restarted>>

\* a <Link> click or a history move to another location inside the running process
Navigate(p) ==
    /\ Idle
    /\ p # path
    /\ path' = p
    /\ view' = Render(p, user, loading)
    /\ gateEffectPending' =
           EffectDue(GateMounted(phase, path), user, loading,
                     GateMounted(phase, p), user, loading)
    /\ username' = UsernameAfter(view')
    /\ UNCHANGED <<storage, user, loading, phase, redirected, ops, lastOp, restarted>>

\* a reload or a new visit on URL p: a fresh process over the same storage
Restart(p) ==
    /\ phase \in {"ready", "crashed"}
    /\ ~gateEffectPending
    /\ user' = Null
    /\ loading' = TRUE
    /\ path' = p
    /\ username' = NoName
    /\ view' = Blank
    /\ phase' = "boot"
    /\ gateEffectPending' = FALSE
    /\ redirected' = FALSE
    /\ ops' = <<>>
    /\ restarted' = TRUE
    /\ UNCHANGED <<storage, lastOp>>

Next ==
    \/ Mount
    \/ RunGateEffect
    \/ RunHydrate
    \/ \E n \in Names \cup {NoName} : SetUsername(n)
    \/ HandleLogin
    \/ HandleLogout
    \/ \E p \in Paths : Navigate(p)
    \/ \E p \in Paths : Restart(p)

Spec == Init /\ [][Next]_vars

\* logout() called by any consumer of the context, with no navigation of its own
CallLogout ==
    /\ Idle
    /\ LET r == logout
       IN  /\ user' = r.user
           /\ storage' = r.storage
           /\ view' = Render(path, r.user, loading)
           /\ gateEffectPending' =
                  EffectDue(GateMounted(phase, path), user, loading,
                            GateMounted(phase, path), r.user, loading)
           /\ ops' = Remember([op |-> "logout", user |-> Null])
           /\ lastOp' = [op |-> "logout", user |-> Null]
    /\ username' = UsernameAfter(view')
    /\ UNCHANGED <<loading, path, phase, redirected, restarted>>

ApiNext == Next \/ CallLogout

\* the application, plus consumers that call the context's logout in any idle state
ApiSpec == Init /\ [][ApiNext]_vars

\* React always runs the first render and flushes the effects it has scheduled
FairSpec ==
    Spec /\ WF_vars(Mount) /\ WF_vars(RunGateEffect) /\ WF_vars(RunHydrate)

TypeOK ==
    /\ storage \in [present : BOOLEAN, text : Seq(STRING)]
    /\ user \in {Null} \cup Users
    /\ loading \in BOOLEAN
    /\ path \in Paths
    /\ username \in Names \cup {NoName}
    /\ phase \in {"boot", "hydrating", "ready", "crashed"}
    /\ gateEffectPending \in BOOLEAN
    /\ redirected \in BOOLEAN
    /\ restarted \in BOOLEAN
    /\ Len(ops) <= MaxHist

----------------------------------------------------------------------------
(* Properties *)

\* C1: while loading is true the protected page is not rendered and the gate has
\* issued no navigation to /login, whatever the storage holds; a mounted gate
\* shows the loading placeholder.
C1_PlaceholderWhileLoading ==
    loading =>
        /\ view.page # "Dashboard"
        /\ ~redirected
        /\ (GateMounted(phase, path) => view.page = "Placeholder")

\* the gate's effect has run during hydration, on a storage that holds a valid user
C1_Witness ==
    /\ loading
    /\ phase = "hydrating"
    /\ path = "/dashboard"
    /\ ~gateEffectPending
    /\ view.page = "Placeholder"
    /\ \E u \in Users : storage = Item(JSONstringify(u))

\* C2: a process that starts on a storage holding user u hydrates to user = u;
\* from then on /dashboard renders the protected page for u, no state with
\* loading = false and user absent is ever committed, and the gate never
\* navigates to /login.
C2_StoredUserRendersProtected ==
    \A u \in Users :
        (ops = <<>> /\ storage = Item(JSONstringify(u))) =>
            /\ phase # "crashed"
            /\ ~redirected
            /\ (~loading => user = u)
            /\ (~loading /\ path = "/dashboard" =>
                    view = Screen("Dashboard", "Welcome", u.name))

C2_Witness ==
    /\ ops = <<>>
    /\ \E u \in Users : storage = Item(JSONstringify(u)) /\ user = u
    /\ phase = "ready"
    /\ ~gateEffectPending
    /\ path = "/dashboard"
    /\ view.page = "Dashboard"

\* C3: a process that starts on a storage with no user never renders the
\* protected page, and once hydrated a request for /dashboard leads to /login.
C3_NoUserRedirects ==
    /\ []((ops = <<>> /\ storage = NoItem) => view.page # "Dashboard")
    /\ ((ops = <<>> /\ storage = NoItem /\ ~loading /\ path = "/dashboard")
            ~> (path = "/login" /\ view.page = "Login"))

C3_Witness ==
    /\ ops = <<>>
    /\ storage = NoItem
    /\ redirected
    /\ path = "/login"
    /\ view.page = "Login"

\* C4: on a storage holding text that does not deserialize, hydration still
\* resolves: no error, loading false, user absent, and /dashboard is handled as
\* for an unauthenticated session.
C4_CorruptStorageHydrates ==
    (storage.present /\ storage.text \in CorruptTexts /\ phase \notin {"boot", "hydrating"}) =>
        /\ phase = "ready"
        /\ ~loading
        /\ user = Null
        /\ view.page # "Dashboard"
        /\ (path = "/dashboard" => view.page = "Null" /\ gateEffectPending)

\* C5: the gate decides from (user, loading) alone and takes exactly one decision:
\* the placeholder while loading, a redirect to /login (nothing rendered, the
\* effect navigates) when loading is false and user is absent, the wrapped page
\* when loading is false and user is present.
C5_GateDecision ==
    /\ [](\A l \in BOOLEAN : \A u \in {Null} \cup Users :
            /\ ProtectedRoute(u, l).page =
                   (IF l THEN "Placeholder" ELSE IF u = Null THEN "Null" ELSE "Dashboard")
            /\ (ProtectedRoute(u, l).page = "Dashboard" =>
                    ProtectedRoute(u, l) = Screen("Dashboard", "Welcome", u.name))
            /\ ProtectedRouteEffect(u, l) = (IF ~l /\ u = Null THEN "/login" ELSE NoNav))
    /\ [](GateMounted(phase, path) =>
            /\ (loading => view.page = "Placeholder")
            /\ (~loading /\ user = Null => view.page = "Null" /\ gateEffectPending)
            /\ (~loading /\ user # Null => view = Screen("Dashboard", "Welcome", user.name)))
    /\ [][(gateEffectPending /\ ~gateEffectPending') =>
            IF ~loading /\ user = Null
            THEN path' = "/login" /\ redirected'
            ELSE path' = path /\ redirected' = redirected]_vars

\* the redirect decision: nothing rendered, the navigation about to be issued
C5_Witness ==
    /\ GateMounted(phase, path)
    /\ ~loading
    /\ user = Null
    /\ view.page = "Null"
    /\ gateEffectPending

\* C6: login(u) followed by logout() leaves user absent and the stored entry removed.
C6_LoginThenLogout ==
    (/\ Len(ops) >= 2
     /\ ops[Len(ops) - 1].op = "login"
     /\ ops[Len(ops)].op = "logout") =>
        (user = Null /\ storage = NoItem)

C6_Witness ==
    /\ Len(ops) >= 2
    /\ ops[Len(ops) - 1].op = "login"
    /\ ops[Len(ops)].op = "logout"
    /\ storage = NoItem
    /\ path = "/login"

\* C7: login(u1) followed by login(u2) leaves user = u2 and the stored text the
\* serialization of u2; login(u) twice leaves what login(u) once leaves.
C7_LastLoginWins ==
    /\ \A u1, u2 \in Users :
        (/\ Len(ops) >= 2
         /\ ops[Len(ops) - 1] = [op |-> "login", user |-> u1]
         /\ ops[Len(ops)] = [op |-> "login", user |-> u2]) =>
            (user = u2 /\ storage = Item(JSONstringify(u2)))
    /\ \A u \in Users :
        (ops = <<[op |-> "login", user |-> u]>>) =>
            (user = u /\ storage = Item(JSONstringify(u)))

C7_Witness ==
    /\ Len(ops) >= 2
    /\ ops[Len(ops) - 1].op = "login"
    /\ ops[Len(ops)].op = "login"
    /\ ops[Len(ops) - 1].user # ops[Len(ops)].user
    /\ user = ops[Len(ops)].user

C9_SessionSurvivesRestart ==
    (restarted /\ ops = <<>> /\ phase \in {"ready", "crashed"}) =>
        /\ (lastOp.op = "login" => phase = "ready" /\ ~loading /\ user = lastOp.user)
        /\ (lastOp.op = "logout" => phase = "ready" /\ ~loading /\ user = Null)

\* a user whose name needs escaping came back from the storage after a restart
C9_Witness ==
    /\ restarted
    /\ ops = <<>>
    /\ phase = "ready"
    /\ lastOp.op = "login"
    /\ user = lastOp.user
    /\ user.name = <<"\"">>

\* C10: a path matching none of '/', '/login', '/dashboard' renders NotFound in
\* every session state, with no gate mounted and no redirect issued from it.
C10_UnmatchedPathNotFound ==
    /\ []((phase \in {"hydrating", "ready"} /\ path \notin {"/", "/login", "/dashboard"}) =>
            (view.page = "NotFound" /\ ~gateEffectPending))
    /\ [][(path \notin {"/", "/login", "/dashboard"} /\ phase' # "boot") =>
            (redirected' = redirected)]_vars

C10_Witness ==
    /\ phase = "ready"
    /\ user # Null
    /\ path = "/signup"
    /\ view.page = "NotFound"

\* C11: useAuth called outside an AuthProvider fails with an error at the call
\* instead of handing the context's default value to its caller.
C11_UseAuthOutsideProviderFails ==
    LET r == useAuth(FALSE, ContextValue)
    IN  r.threw /\ r.value # DefaultContext

\* C12: logout() called in an unauthenticated session leaves user absent and
\* loading false, leaves the storage without a 'user' entry (removing one that
\* was there) and raises no error.
C12_LogoutWhenUnauthenticated ==
    [][(CallLogout /\ ~loading /\ user = Null) =>
          (user' = Null /\ ~loading' /\ storage' = NoItem /\ phase' = "ready")]_vars

\* logout() was called a second time in a row, on a storage entry it never wrote
C12_Witness ==
    /\ Len(ops) >= 2
    /\ ops[Len(ops) - 1].op = "logout"
    /\ ops[Len(ops)].op = "logout"
    /\ user = Null
    /\ ~loading
    /\ storage = NoItem

\* C13 (as claimed): running the gate changes neither user, loading nor storage,
\* and the gate does not itself navigate: its effect leaves the location alone.
C13_GateHasNoSideEffects ==
    [][RunGateEffect => UNCHANGED <<user, loading, storage, path>>]_vars

\* C13 (amended): running the gate changes neither user, loading nor storage;
\* the gate's own effect performs the navigation to /login, exactly when loading
\* is false and user is absent, and otherwise leaves the location alone.
C13_GateOnlyNavigates ==
    [][RunGateEffect =>
          /\ UNCHANGED <<user, loading, storage>>
          /\ IF ~loading /\ user = Null
             THEN path' = "/login" /\ redirected'
             ELSE UNCHANGED <<path, redirected>>]_vars

\* the gate's effect has navigated an unauthenticated session to /login
C13_Witness ==
    /\ redirected
    /\ ~loading
    /\ user = Null
    /\ path = "/login"
    /\ view.page = "Login"
    /\ ~gateEffectPending

\* C14: in a hydrated process whose storage key only this application has
\* written, user and storage agree: user is absent exactly when there is no
\* 'user' entry, and otherwise the entry is the serialization of user.
C14_UserAgreesWithStorage ==
    (/\ phase = "ready"
     /\ (lastOp # NoOp \/ storage \in {NoItem} \cup {Item(JSONstringify(u)) : u \in Users})) =>
        /\ (user = Null <=> storage = NoItem)
        /\ (user # Null => storage = Item(JSONstringify(user)))

\* a session logged in after a restart, its entry rewritten by this login
C14_Witness ==
    /\ phase = "ready"
    /\ restarted
    /\ Len(ops) >= 1
    /\ ops[Len(ops)].op = "login"
    /\ user # Null
    /\ storage = Item(JSONstringify(user))
    /\ path = "/dashboard"

\* C15: submitting the login form with username n calls login({id: 1, name: n})
\* and navigates to /dashboard; the commit that follows already renders the
\* protected page for n, and the gate's effect that runs after it does not
\* navigate back to /login.
C15_LoginSubmitRendersDashboard ==
    /\ [][HandleLogin =>
            /\ user' = [id |-> FakeId, name |-> username]
            /\ storage' = Item(JSONstringify([id |-> FakeId, name |-> username]))
            /\ path' = "/dashboard"
            /\ view' = Screen("Dashboard", "Welcome", username)
            /\ gateEffectPending']_vars
    /\ [][(RunGateEffect /\ Len(ops) > 0 /\ ops[Len(ops)].op = "login") =>
            UNCHANGED <<path, view, redirected>>]_vars

\* the gate's effect has run after a submit and left the dashboard in place
C15_Witness ==
    /\ Len(ops) = 1
    /\ ops[1].op = "login"
    /\ ~redirected
    /\ ~gateEffectPending
    /\ path = "/dashboard"
    /\ view = Screen("Dashboard", "Welcome", ops[1].user.name)

\* the last auth operation of this process was a logout
LoggedOutLast == Len(ops) > 0 /\ ops[Len(ops)].op = "logout"

\* C16: the Dashboard's logout control leaves user absent, the storage cleared,
\* the location /login and the login page on screen; until the next login the
\* protected page is not rendered, and a later request for /dashboard renders
\* nothing and is redirected to /login.
C16_LogoutControl ==
    /\ [][HandleLogout =>
            /\ user' = Null
            /\ storage' = NoItem
            /\ path' = "/login"
            /\ view'.page = "Login"
            /\ ~gateEffectPending']_vars
    /\ [](LoggedOutLast => (user = Null /\ storage = NoItem /\ view.page # "Dashboard"))
    /\ []((LoggedOutLast /\ path = "/dashboard") => (view.page = "Null" /\ gateEffectPending))
    /\ ((LoggedOutLast /\ path = "/dashboard") ~> (path = "/login" /\ view.page = "Login"))

\* after a logout, a request for /dashboard is about to be redirected
C16_Witness ==
    /\ LoggedOutLast
    /\ Len(ops) >= 2
    /\ ops[Len(ops) - 1].op = "login"
    /\ path = "/dashboard"
    /\ view.page = "Null"
    /\ gateEffectPending

\* C17: the Dashboard page is on screen only with loading false and user
\* present, showing that user's name; its 'Loading user data...' branch is
\* never rendered.
C17_DashboardOnlyForUser ==
    /\ (view.page = "Dashboard" =>
            /\ ~loading
            /\ user # Null
            /\ view = Screen("Dashboard", "Welcome", user.name))
    /\ view.text # "Loading user data..."

\* the dashboard on screen again after a login, a logout and a second login
C17_Witness ==
    /\ view.page = "Dashboard"
    /\ Len(ops) >= 2
    /\ ops[Len(ops) - 1].op = "logout"
    /\ ops[Len(ops)].op = "login"
    /\ view.name = user.name
    /\ ~gateEffectPending

\* nothing is left for React to run: the tree is hydrated (or gone), no effect pending
Quiescent == phase \in {"ready", "crashed"} /\ ~gateEffectPending

\* C18: the application always comes to rest: it keeps reaching states in which
\* no render, effect or navigation is left to run, and a redirect issued by the
\* gate goes from /dashboard to the public /login page, where no gate is mounted
\* and no further redirect is scheduled.
C18_RedirectsSettle ==
    /\ []<>Quiescent
    /\ [](Quiescent => ~ENABLED (Mount \/ RunGateEffect \/ RunHydrate))
    /\ [][(RunGateEffect /\ path' # path) =>
            /\ path = "/dashboard"
            /\ path' = "/login"
            /\ view'.page = "Login"
            /\ ~GateMounted(phase', path')
            /\ ~gateEffectPending']_vars

\* at rest on /login after the redirect that followed a logout
C18_Witness ==
    /\ Quiescent
    /\ redirected
    /\ LoggedOutLast
    /\ path = "/login"
    /\ view.page = "Login"

====
